---- MODULE Spec2Model ----
(***************************************************************************)
(* State-machine model of the rummy rule engine of ai_rummy_games:         *)
(* models.py (Card, Deck, Player, Meld, GameState), validator.py           *)
(* (Validator), scorer.py (Scorer) and the handlers of main.py that        *)
(* change the game (extend_meld, handle_game_closure, the draw and         *)
(* discard steps of start_game).                                           *)
(*                                                                         *)
(* Specifications:                                                         *)
(*   Spec      the game after start_game has dealt, driven by the          *)
(*             operations of GameState and the handlers of main.py;        *)
(*   SpecDeck  a freshly built Deck under draw and discard alone;          *)
(*   SpecV     the pure functions of Validator applied to enumerated       *)
(*             inputs;                                                     *)
(*   SpecScore Scorer.calculate_scores on enumerated games;                *)
(*   SpecTurn  a new GameState under add_player, remove_player and         *)
(*             next_turn;                                                  *)
(*   SpecApi   a GameState put together by the caller, under direct calls  *)
(*             of its methods, Player.remove_card and a restore from the   *)
(*             snapshot.                                                   *)
(***************************************************************************)
EXTENDS Integers, Sequences, FiniteSets, TLC

VARIABLES
    players,              \* GameState.players: Seq of [name, hand, has_declared, score]
    deck_draw_pile,       \* Deck.draw_pile (top of the pile is the last element)
    deck_discard_pile,    \* Deck.discard_pile
    melds_on_table,       \* GameState.melds_on_table: Seq of [type, cards]
    current_round,        \* GameState.current_round
    current_player_index, \* GameState.current_player_index
    is_game_closed,       \* GameState.is_game_closed
    closer_name,          \* GameState.closer_name ("None" for None)
    scores,               \* GameState.scores: function from a set of names to Int
    last,                 \* the last call: operation, arguments and outcome
    vin,                  \* SpecV: the arguments of the validator call
    vout                  \* SpecV: the result of the validator call

vars == <<players, deck_draw_pile, deck_discard_pile, melds_on_table,
          current_round, current_player_index, is_game_closed, closer_name,
          scores, last, vin, vout>>

gameVars == <<players, deck_draw_pile, deck_discard_pile, melds_on_table,
              current_round, current_player_index, is_game_closed,
              closer_name, scores>>

-----------------------------------------------------------------------------
(* Cards and the deck                                                      *)

SUITS == <<"Hearts", "Diamonds", "Clubs", "Spades">>

RANKS == <<"A", "2", "3", "4", "5", "6", "7", "8", "9", "10", "J", "Q", "K">>

Card(s, r) == [suit |-> s, rank |-> r, is_joker |-> FALSE]

Joker == [suit |-> "", rank |-> "", is_joker |-> TRUE]

NumDecks == 2

NumJokers == 4

\* Deck._build_deck: two standard decks, suit-major, then the jokers.
StandardDeck ==
    [i \in 1..(Len(SUITS) * Len(RANKS)) |->
        Card(SUITS[((i - 1) \div Len(RANKS)) + 1], RANKS[((i - 1) % Len(RANKS)) + 1])]

RECURSIVE Repeat(_, _)
Repeat(s, n) == IF n = 0 THEN <<>> ELSE s \o Repeat(s, n - 1)

BuildDeck == Repeat(StandardDeck, NumDecks) \o Repeat(<<Joker>>, NumJokers)

-----------------------------------------------------------------------------
(* Python list helpers                                                     *)

\* list.index by value: the first position holding c, 0 when absent.
IndexOf(s, c) ==
    IF \E i \in 1..Len(s) : s[i] = c
    THEN CHOOSE i \in 1..Len(s) : s[i] = c /\ \A j \in 1..(i - 1) : s[j] # c
    ELSE 0

Contains(s, c) == IndexOf(s, c) # 0

RemoveAt(s, i) == SubSeq(s, 1, i - 1) \o SubSeq(s, i + 1, Len(s))

\* list.remove(c): drops the first element equal to c (the caller checks Contains).
ListRemove(s, c) == RemoveAt(s, IndexOf(s, c))

RECURSIVE Flatten(_)
Flatten(ss) == IF ss = <<>> THEN <<>> ELSE Head(ss) \o Flatten(Tail(ss))

RECURSIVE SumSeq(_)
SumSeq(s) == IF s = <<>> THEN 0 ELSE Head(s) + SumSeq(Tail(s))

Reverse(s) == [i \in 1..Len(s) |-> s[Len(s) + 1 - i]]

IsJoker(c) == c.is_joker

NotJoker(c) == ~c.is_joker

-----------------------------------------------------------------------------
(* Validator (validator.py)                                                *)

\* Validator.CARD_POINTS.get(rank, 0)
CARD_POINTS(r) ==
    CASE r = "A" -> 10
      [] r = "2" -> 2
      [] r = "3" -> 3
      [] r = "4" -> 4
      [] r = "5" -> 5
      [] r = "6" -> 6
      [] r = "7" -> 7
      [] r = "8" -> 8
      [] r = "9" -> 9
      [] r = "10" -> 10
      [] r = "J" -> 10
      [] r = "Q" -> 10
      [] r = "K" -> 10
      [] OTHER -> 0

JOKER_POINTS == 20

MINIMUM_DECLARATION_POINTS == 48

\* rank_to_value of Validator._get_rank_values: the position of the rank in A..K.
RankValue(r) == CHOOSE i \in 1..Len(RANKS) : RANKS[i] = r

\* Validator._get_rank_values
GetRankValues(cards) == [i \in 1..Len(cards) |-> RankValue(cards[i].rank)]

\* Validator._cards_available_in_hand: remove every referenced card from a
\* copy of the hand, failing at the first card that is not there.
RECURSIVE RemoveEach(_, _)
RemoveEach(hand_copy, cards) ==
    IF cards = <<>> THEN [ok |-> TRUE, hand |-> hand_copy]
    ELSE IF ~Contains(hand_copy, Head(cards)) THEN [ok |-> FALSE, hand |-> hand_copy]
    ELSE RemoveEach(ListRemove(hand_copy, Head(cards)), Tail(cards))

MeldCards(melds) == Flatten([i \in 1..Len(melds) |-> melds[i].cards])

\* Faulty variant (sensitivity of C5): membership without counting copies.
CardsInHandUncounted(player_hand, melds) ==
    \A i \in 1..Len(MeldCards(melds)) : Contains(player_hand, MeldCards(melds)[i])

\* Validator._cards_available_in_hand
CardsAvailableInHand(player_hand, melds) ==
    RemoveEach(player_hand, MeldCards(melds)).ok

\* Validator._calculate_single_meld_points
CalculateSingleMeldPoints(meld) ==
    SumSeq([i \in 1..Len(meld.cards) |->
        IF meld.cards[i].is_joker THEN JOKER_POINTS
        ELSE CARD_POINTS(meld.cards[i].rank)])

\* Validator._calculate_meld_points
CalculateMeldPoints(melds) ==
    SumSeq([i \in 1..Len(melds) |-> CalculateSingleMeldPoints(melds[i])])

\* Validator._is_valid_set: the loop over the cards, with its early returns.
RECURSIVE SetLoop(_, _, _, _, _)
SetLoop(cards, i, base_rank, suits_used, joker_count) ==
    IF i > Len(cards) THEN joker_count <= 4 - Cardinality(suits_used)
    ELSE IF cards[i].is_joker
         THEN SetLoop(cards, i + 1, base_rank, suits_used, joker_count + 1)
    ELSE IF base_rank # "None" /\ cards[i].rank # base_rank THEN FALSE
    ELSE IF cards[i].suit \in suits_used THEN FALSE
    ELSE SetLoop(cards, i + 1, cards[i].rank, suits_used \cup {cards[i].suit},
                 joker_count)

\* Faulty variant (sensitivity of C19): the length is not checked.
SetOfAnyLength(cards) == SetLoop(cards, 1, "None", {}, 0)

IsValidSet(cards) ==
    IF Len(cards) < 3 THEN FALSE
    ELSE SetLoop(cards, 1, "None", {}, 0)

\* Validator._can_form_sequence_with_jokers: the ranks come sorted; a repeated
\* rank is rejected, then the gaps between neighbours are summed.
RECURSIVE HasDuplicate(_, _, _)
HasDuplicate(sorted_ranks, i, unique_ranks) ==
    IF i > Len(sorted_ranks) THEN FALSE
    ELSE IF sorted_ranks[i] \in unique_ranks THEN TRUE
    ELSE HasDuplicate(sorted_ranks, i + 1, unique_ranks \cup {sorted_ranks[i]})

GapsNeeded(unique_ranks) ==
    SumSeq([i \in 1..(Len(unique_ranks) - 1) |->
        unique_ranks[i + 1] - unique_ranks[i] - 1])

\* Faulty variant (sensitivity of C18): a repeated rank is not rejected.
GapsWithRepeats(sorted_ranks, joker_count) ==
    IF sorted_ranks = <<>> THEN FALSE
    ELSE GapsNeeded(sorted_ranks) <= joker_count

CanFormSequenceWithJokers(sorted_ranks, joker_count) ==
    IF sorted_ranks = <<>> THEN FALSE
    ELSE IF HasDuplicate(sorted_ranks, 1, {}) THEN FALSE
    ELSE GapsNeeded(sorted_ranks) <= joker_count

\* Faulty variant (sensitivity of C6): A, K and Q among the ranks, others allowed.
AceKingQueenAmong(regular_cards) ==
    \A r \in {"A", "K", "Q"} :
        \E i \in 1..Len(regular_cards) : regular_cards[i].rank = r

\* sorted([c.rank for c in regular_cards]) == ["A", "K", "Q"]
AceKingQueen(regular_cards) ==
    /\ Len(regular_cards) = 3
    /\ \A r \in {"A", "K", "Q"} :
          \E i \in 1..3 : regular_cards[i].rank = r

\* Validator._is_valid_sequence
IsValidSequence(cards) ==
    LET regular_cards == SelectSeq(cards, NotJoker)
        joker_count == Len(cards) - Len(regular_cards)
    IN  IF Len(cards) < 3 THEN FALSE
        ELSE IF regular_cards = <<>> THEN FALSE
        ELSE IF \E i \in 1..Len(regular_cards) :
                    regular_cards[i].suit # regular_cards[1].suit THEN FALSE
        ELSE IF AceKingQueen(regular_cards) THEN TRUE
        ELSE CanFormSequenceWithJokers(
                 SortSeq(GetRankValues(regular_cards), <), joker_count)

\* Validator._validate_meld
ValidateMeld(meld) ==
    IF meld.type = "set" THEN IsValidSet(meld.cards)
    ELSE IF meld.type = "sequence" THEN IsValidSequence(meld.cards)
    ELSE FALSE

\* Validator.validate_new_meld
ValidateNewMeld(cards, meld_type) == ValidateMeld([type |-> meld_type, cards |-> cards])

\* Validator._is_pure_sequence
IsPureSequence(meld) ==
    IF meld.type # "sequence" THEN FALSE
    ELSE IF \E i \in 1..Len(meld.cards) : meld.cards[i].is_joker THEN FALSE
    ELSE IsValidSequence(meld.cards)

\* Validator._has_pure_sequence
HasPureSequence(melds) == \E i \in 1..Len(melds) : IsPureSequence(melds[i])

\* Validator.validate_initial_declaration
ValidateInitialDeclaration(player_hand, melds) ==
    IF ~CardsAvailableInHand(player_hand, melds) THEN FALSE
    ELSE IF CalculateMeldPoints(melds) < MINIMUM_DECLARATION_POINTS THEN FALSE
    ELSE IF ~HasPureSequence(melds) THEN FALSE
    ELSE \A i \in 1..Len(melds) : ValidateMeld(melds[i])

\* Faulty variant (sensitivity of C16): the suit is checked, the run is not.
SuitOnlyExtension(existing_cards, added_cards) ==
    LET regular_cards == SelectSeq(existing_cards, NotJoker)
    IN  IF added_cards = <<>> THEN FALSE
        ELSE IF regular_cards = <<>> THEN FALSE
        ELSE \A i \in 1..Len(added_cards) :
                 \/ added_cards[i].is_joker
                 \/ added_cards[i].suit = regular_cards[1].suit

\* Validator._validate_sequence_extension
ValidateSequenceExtension(existing_cards, added_cards) ==
    LET regular_cards == SelectSeq(existing_cards, NotJoker)
    IN  IF added_cards = <<>> THEN FALSE
        ELSE IF regular_cards = <<>> THEN FALSE
        ELSE IF \E i \in 1..Len(added_cards) :
                    /\ ~added_cards[i].is_joker
                    /\ added_cards[i].suit # regular_cards[1].suit THEN FALSE
        ELSE IsValidSequence(existing_cards \o added_cards)

\* Validator._validate_set_extension: the last loop rejects a suit seen twice.
RECURSIVE SuitTwice(_, _, _)
SuitTwice(cards, i, suits_used) ==
    IF i > Len(cards) THEN FALSE
    ELSE IF cards[i].is_joker THEN SuitTwice(cards, i + 1, suits_used)
    ELSE IF cards[i].suit \in suits_used THEN TRUE
    ELSE SuitTwice(cards, i + 1, suits_used \cup {cards[i].suit})

\* Faulty variant (sensitivity of C20): the combined size is not limited.
SetExtensionOfAnySize(existing_cards, added_cards) ==
    LET regular_cards == SelectSeq(existing_cards, NotJoker)
    IN  IF added_cards = <<>> THEN FALSE
        ELSE IF regular_cards = <<>> THEN FALSE
        ELSE IF \E i \in 1..Len(added_cards) :
                    /\ ~added_cards[i].is_joker
                    /\ added_cards[i].rank # regular_cards[1].rank THEN FALSE
        ELSE ~SuitTwice(existing_cards \o added_cards, 1, {})

ValidateSetExtension(existing_cards, added_cards) ==
    LET regular_cards == SelectSeq(existing_cards, NotJoker)
    IN  IF added_cards = <<>> THEN FALSE
        ELSE IF Len(existing_cards) + Len(added_cards) > 4 THEN FALSE
        ELSE IF regular_cards = <<>> THEN FALSE
        ELSE IF \E i \in 1..Len(added_cards) :
                    /\ ~added_cards[i].is_joker
                    /\ added_cards[i].rank # regular_cards[1].rank THEN FALSE
        ELSE ~SuitTwice(existing_cards \o added_cards, 1, {})

\* Validator.validate_extension
ValidateExtension(existing_meld, added_cards) ==
    IF existing_meld.type = "sequence"
    THEN ValidateSequenceExtension(existing_meld.cards, added_cards)
    ELSE IF existing_meld.type = "set"
    THEN ValidateSetExtension(existing_meld.cards, added_cards)
    ELSE FALSE

-----------------------------------------------------------------------------
(* Meld.is_valid (models.py), the check behind the marks of the table view  *)

\* The positions of the cards that are not jokers, in order.
NonJokerPositions(cards) ==
    SelectSeq([i \in 1..Len(cards) |-> i], LAMBDA i : ~cards[i].is_joker)

\* Meld._is_valid_set: the non-jokers share the rank of the first of them
\* and no suit comes twice; jokers alone pass.
MeldIsValidSet(cards) ==
    LET pos == NonJokerPositions(cards)
    IN  IF cards = <<>> THEN FALSE
        ELSE IF pos = <<>> THEN TRUE
        ELSE /\ \A k \in 1..Len(pos) : cards[pos[k]].rank = cards[pos[1]].rank
             /\ \A k, l \in 1..Len(pos) :
                    k # l => cards[pos[k]].suit # cards[pos[l]].suit

\* Meld._is_valid_sequence: the non-jokers share the suit of the first of
\* them and, taken in the order they lie, each pair of neighbours differs
\* in rank by as much as in position.
MeldIsValidSequence(cards) ==
    LET pos == NonJokerPositions(cards)
    IN  IF cards = <<>> THEN FALSE
        ELSE IF pos = <<>> THEN FALSE
        ELSE IF \E k \in 1..Len(pos) : cards[pos[k]].suit # cards[pos[1]].suit
        THEN FALSE
        ELSE IF Len(pos) < 2 THEN Len(cards) >= 3
        ELSE \A k \in 2..Len(pos) :
                 RankValue(cards[pos[k]].rank) - RankValue(cards[pos[k - 1]].rank)
                     = pos[k] - pos[k - 1]

\* Meld.is_valid
MeldIsValid(meld) ==
    IF Len(meld.cards) < 3 THEN FALSE
    ELSE IF meld.type = "set" THEN MeldIsValidSet(meld.cards)
    ELSE IF meld.type = "sequence" THEN MeldIsValidSequence(meld.cards)
    ELSE FALSE

-----------------------------------------------------------------------------
(* Scorer (scorer.py)                                                      *)

UNDECLARED_PENALTY == 100

JOKER_PENALTY == 50

SCORER_JOKER_POINTS == 10

\* Faulty variant (sensitivity of C12): a joker in hand valued as in a meld.
HandPointsAsMeldPoints(cards) ==
    SumSeq([i \in 1..Len(cards) |->
        IF cards[i].is_joker THEN JOKER_POINTS
        ELSE CARD_POINTS(cards[i].rank)])

\* Scorer._calculate_hand_points (Scorer.CARD_POINTS equals Validator.CARD_POINTS)
CalculateHandPoints(cards) ==
    SumSeq([i \in 1..Len(cards) |->
        IF cards[i].is_joker THEN SCORER_JOKER_POINTS
        ELSE CARD_POINTS(cards[i].rank)])

\* Scorer.calculate_scores: the closer gets 0, every other player is scored
\* by declaration status.
CalculateScores(ps, closer) ==
    [n \in {closer} \cup {ps[i].name : i \in 1..Len(ps)} |->
        IF n = closer THEN 0
        ELSE LET p == ps[CHOOSE i \in 1..Len(ps) : ps[i].name = n]
             IN  IF ~p.has_declared
                 THEN UNDECLARED_PENALTY
                      + JOKER_PENALTY * Len(SelectSeq(p.hand, IsJoker))
                 ELSE CalculateHandPoints(p.hand)]

-----------------------------------------------------------------------------
(* Game set-up (start_game of main.py)                                     *)

CardsPerPlayer == 13

Player(n) == [name |-> n, hand |-> <<>>, has_declared |-> FALSE, score |-> 0]

\* Deck.draw on a non-empty pile: list.pop() takes the last element.
TopCard(pile) == pile[Len(pile)]

\* Faulty variant (sensitivity of C10): a draw that loses a second card.
PopTwo(pile) == SubSeq(pile, 1, Len(pile) - 2)

Pop(pile) == SubSeq(pile, 1, Len(pile) - 1)

\* The dealing loop of start_game: CardsPerPlayer rounds, in each round one
\* card popped for every player in order, so player i (from 1) of n gets the
\* cards at depth (j - 1) * n + (i - 1) from the top, j = 1..CardsPerPlayer.
Deal(ps, pile) ==
    [players |->
        [i \in 1..Len(ps) |->
            [ps[i] EXCEPT !.hand =
                [j \in 1..CardsPerPlayer |->
                    pile[Len(pile) - ((j - 1) * Len(ps) + (i - 1))]]]],
     pile |-> SubSeq(pile, 1, Len(pile) - CardsPerPlayer * Len(ps))]

\* The hands dealt by the explored shuffle and the card it flips to the
\* discard pile.
HandA ==
    << Card("Hearts", "5"), Card("Hearts", "6"), Card("Hearts", "7"),
       Card("Hearts", "8"), Card("Spades", "10"), Card("Clubs", "10"),
       Card("Diamonds", "10"), Card("Diamonds", "Q"), Card("Diamonds", "K"),
       Joker, Card("Hearts", "9"), Card("Diamonds", "A"), Card("Clubs", "2") >>

HandB ==
    << Card("Diamonds", "5"), Card("Diamonds", "6"), Card("Diamonds", "7"),
       Card("Spades", "Q"), Card("Diamonds", "Q"), Card("Clubs", "Q"),
       Joker, Card("Hearts", "9"), Card("Hearts", "J"), Card("Clubs", "3"),
       Card("Clubs", "4"), Card("Spades", "8"), Card("Diamonds", "2") >>

FirstDiscard == Card("Hearts", "10")

Interleave(a, b) ==
    [i \in 1..(2 * Len(a)) |-> IF i % 2 = 1 THEN a[(i + 1) \div 2] ELSE b[i \div 2]]

\* The position in the built deck of the given copy (1 or 2; 1..4 for a
\* joker) of a card.
DeckPos(card, copy) ==
    IF card.is_joker THEN NumDecks * Len(StandardDeck) + copy
    ELSE (copy - 1) * Len(StandardDeck) + IndexOf(StandardDeck, card)

\* A shuffled draw pile: the built deck reordered so that the cards at the
\* positions `top` are drawn first, the rest following in build order.
ShuffledPile(top) ==
    LET rest == SelectSeq([i \in 1..Len(BuildDeck) |-> i],
                          LAMBDA i : \A k \in 1..Len(top) : top[k] # i)
        order == top \o rest
    IN  Reverse([k \in 1..Len(order) |-> BuildDeck[order[k]]])

\* random.shuffle can produce any order of the deck; the order explored
\* deals HandA and HandB and flips FirstDiscard.
Shuffles ==
    { ShuffledPile(Interleave([k \in 1..Len(HandA) |-> DeckPos(HandA[k], 1)],
                              [k \in 1..Len(HandB) |-> DeckPos(HandB[k], 2)])
                   \o <<DeckPos(FirstDiscard, 1)>>) }

NoCall == [op |-> "none", name |-> "", ret |-> "None"]

Call(op, name, ret) == [op |-> op, name |-> name, ret |-> ret]

NoInput ==
    [op |-> "none", cards |-> <<>>, kind |-> "", hand |-> <<>>, melds |-> <<>>,
     added |-> <<>>]

Init ==
    \E pile \in Shuffles, start \in 0..1 :
        LET dealt == Deal(<<Player("P1"), Player("P2")>>, pile)
            first_discard == TopCard(dealt.pile)
        IN  /\ players = dealt.players
            /\ deck_draw_pile = Pop(dealt.pile)
            /\ deck_discard_pile = <<first_discard>>
            /\ melds_on_table = <<>>
            /\ current_round = 1
            /\ current_player_index = start
            /\ is_game_closed = FALSE
            /\ closer_name = "None"
            /\ scores = [n \in {} |-> 0]
            /\ last = NoCall
            /\ vin = NoInput
            /\ vout = "None"

-----------------------------------------------------------------------------
(* GameState (models.py)                                                   *)

\* The position (1-based) of the first player called name, 0 when absent.
RECURSIVE FindFrom(_, _, _)
FindFrom(ps, name, i) ==
    IF i > Len(ps) THEN 0
    ELSE IF ps[i].name = name THEN i
    ELSE FindFrom(ps, name, i + 1)

\* Faulty variant (sensitivity of C9): a known name resolves to the current player.
FindCurrentPlayer(ps, name) ==
    IF FindFrom(ps, name, 1) = 0 \/ current_player_index >= Len(ps) THEN 0
    ELSE current_player_index + 1

FindPlayer(ps, name) == FindFrom(ps, name, 1)

\* GameState.current_player: the 1-based position of the current player, 0 for None.
CurrentPlayer ==
    IF players = <<>> \/ current_player_index >= Len(players) THEN 0
    ELSE current_player_index + 1

\* Bounds of the exploration.
MaxDiscards == 1

MaxRound == 4

MaxCloses == 1

\* The names a caller may pass: the players of the game, a late joiner and a
\* name no player has.
CallNames == {"P1", "P2", "Nobody"}

JoinNames == {"P3"}

\* GameState.add_player (names are unique within a game)
AddPlayer(name) ==
    /\ FindPlayer(players, name) = 0
    /\ players' = Append(players, Player(name))
    /\ last' = Call("add_player", name, "None")
    /\ UNCHANGED <<deck_draw_pile, deck_discard_pile, melds_on_table,
                   current_round, current_player_index, is_game_closed,
                   closer_name, scores, vin, vout>>

\* Faulty variant (sensitivity of C14): the index is left as it was.
KeepIndex(idx, i, n) == idx

\* The index adjustment of GameState.remove_player after players.pop(i),
\* i counted from 0, n the number of players left.
AdjustIndex(idx, i, n) ==
    IF idx >= n /\ n > 0 THEN 0
    ELSE IF idx > i THEN idx - 1
    ELSE idx

\* GameState.remove_player
RemovePlayer(name) ==
    LET pos == FindPlayer(players, name)
    IN  IF pos = 0
        THEN /\ last' = Call("remove_player", name, "ValueError")
             /\ UNCHANGED <<gameVars, vin, vout>>
        ELSE /\ players' = RemoveAt(players, pos)
             /\ current_player_index' =
                    AdjustIndex(current_player_index, pos - 1, Len(players) - 1)
             /\ last' = Call("remove_player", name, "None")
             /\ UNCHANGED <<deck_draw_pile, deck_discard_pile, melds_on_table,
                            current_round, is_game_closed, closer_name, scores,
                            vin, vout>>

\* Faulty variant (sensitivity of C23): every turn starts a new round.
NextTurnNewRound(idx, round, n) ==
    IF n = 0 THEN [index |-> idx, round |-> round]
    ELSE IF idx + 1 >= n THEN [index |-> 0, round |-> round + 1]
    ELSE [index |-> idx + 1, round |-> round + 1]

\* Faulty variant (sensitivity of C13): the wrap does not start a new round.
NextTurnSameRound(idx, round, n) ==
    IF n = 0 THEN [index |-> idx, round |-> round]
    ELSE IF idx + 1 >= n THEN [index |-> 0, round |-> round]
    ELSE [index |-> idx + 1, round |-> round]

\* GameState.next_turn as a function of the index, the round and the number
\* of players.
NextTurnStep(idx, round, n) ==
    IF n = 0 THEN [index |-> idx, round |-> round]
    ELSE IF idx + 1 >= n THEN [index |-> 0, round |-> round + 1]
    ELSE [index |-> idx + 1, round |-> round]

\* GameState.next_turn
NextTurn ==
    /\ current_round < MaxRound \/ current_player_index + 1 < Len(players)
    /\ LET s == NextTurnStep(current_player_index, current_round, Len(players))
       IN  /\ current_player_index' = s.index
           /\ current_round' = s.round
    /\ last' = Call("next_turn", "", "None")
    /\ UNCHANGED <<players, deck_draw_pile, deck_discard_pile, melds_on_table,
                   is_game_closed, closer_name, scores, vin, vout>>

\* Faulty variant (sensitivity of C4): only the first meld's cards leave the hand.
ProcessFirstMeldOnly(ps, table, pos, melds) ==
    LET r == RemoveEach(ps[pos].hand, melds[1].cards)
        declared == [ps EXCEPT ![pos].has_declared = TRUE, ![pos].hand = r.hand]
    IN  [players |-> declared, table |-> table \o melds, ret |-> "True"]

\* The commit of GameState.validate_and_process_declaration: declare(), then
\* remove_card for every card of every meld (ValueError at the first card
\* that is not in the hand), then add_meld_to_table for every meld.
ProcessDeclaration(ps, table, pos, melds) ==
    LET r == RemoveEach(ps[pos].hand, MeldCards(melds))
        declared == [ps EXCEPT ![pos].has_declared = TRUE, ![pos].hand = r.hand]
    IN  IF r.ok
        THEN [players |-> declared, table |-> table \o melds, ret |-> "True"]
        ELSE [players |-> declared, table |-> table, ret |-> "ValueError"]

\* Faulty variant (sensitivity of C3): has_declared set before validation.
DeclareBeforeValidation(ps, table, name, melds) ==
    LET pos == FindPlayer(ps, name)
        declared == [ps EXCEPT ![pos].has_declared = TRUE]
    IN  IF pos = 0
        THEN [players |-> ps, table |-> table, ret |-> "ValueError"]
        ELSE IF ps[pos].has_declared
        THEN [players |-> ps, table |-> table, ret |-> "False"]
        ELSE IF ~ValidateInitialDeclaration(ps[pos].hand, melds)
        THEN [players |-> declared, table |-> table, ret |-> "False"]
        ELSE ProcessDeclaration(ps, table, pos, melds)

\* GameState.validate_and_process_declaration
DeclarationOutcome(ps, table, name, melds) ==
    LET pos == FindPlayer(ps, name)
    IN  IF pos = 0
        THEN [players |-> ps, table |-> table, ret |-> "ValueError"]
        ELSE IF ps[pos].has_declared
        THEN [players |-> ps, table |-> table, ret |-> "False"]
        ELSE IF ~ValidateInitialDeclaration(ps[pos].hand, melds)
        THEN [players |-> ps, table |-> table, ret |-> "False"]
        ELSE ProcessDeclaration(ps, table, pos, melds)

ValidateAndProcessDeclaration(name, melds) ==
    LET out == DeclarationOutcome(players, melds_on_table, name, melds)
    IN  /\ players' = out.players
        /\ melds_on_table' = out.table
        /\ last' = Call("declare", name, out.ret)
        /\ UNCHANGED <<deck_draw_pile, deck_discard_pile, current_round,
                       current_player_index, is_game_closed, closer_name,
                       scores, vin, vout>>

\* Faulty variant (sensitivity of C11): the scores are computed but not added.
KeepScores(ps, sc) == ps

\* Player.add_score for every player with scores.get(name, 0)
AddScores(ps, sc) ==
    [i \in 1..Len(ps) |->
        [ps[i] EXCEPT !.score =
            @ + (IF ps[i].name \in DOMAIN sc THEN sc[ps[i].name] ELSE 0)]]

TotalScore(ps) == SumSeq([i \in 1..Len(ps) |-> ps[i].score])

\* Faulty variant (sensitivity of C25): close_game lets a hand of one card pass.
CloseGameWithLastCard(ps, name) ==
    LET pos == FindPlayer(ps, name)
    IN  IF pos = 0 THEN "ValueError"
        ELSE IF Len(ps[pos].hand) > 1 THEN "False"
        ELSE "True"

\* GameState.close_game
CloseGameOutcome(ps, name) ==
    LET pos == FindPlayer(ps, name)
    IN  IF pos = 0 THEN "ValueError"
        ELSE IF Len(ps[pos].hand) > 0 THEN "False"
        ELSE "True"

\* Faulty variant (sensitivity of C15): closing also clears the declarations.
CloseGameAndReset(ps, name) ==
    /\ is_game_closed' = TRUE
    /\ closer_name' = name
    /\ scores' = CalculateScores(ps, name)
    /\ players' = [i \in 1..Len(ps) |->
                      [AddScores(ps, CalculateScores(ps, name))[i]
                          EXCEPT !.has_declared = FALSE]]

CloseGameEffect(ps, name) ==
    /\ is_game_closed' = TRUE
    /\ closer_name' = name
    /\ scores' = CalculateScores(ps, name)
    /\ players' = AddScores(ps, CalculateScores(ps, name))

\* Every player's accumulated score is still one the exploration lets grow.
MayScore == \A i \in 1..Len(players) :
                players[i].score < MaxCloses * (UNDECLARED_PENALTY + JOKER_PENALTY)

CloseGame(name) ==
    /\ MayScore
    /\ last' = Call("close_game", name, CloseGameOutcome(players, name))
    /\ IF CloseGameOutcome(players, name) = "True"
       THEN CloseGameEffect(players, name)
       ELSE UNCHANGED <<players, is_game_closed, closer_name, scores>>
    /\ UNCHANGED <<deck_draw_pile, deck_discard_pile, melds_on_table,
                   current_round, current_player_index, vin, vout>>

\* GameState.end_game
EndGame ==
    /\ last' = Call("end_game", "", "None")
    /\ IF is_game_closed
       THEN UNCHANGED <<players, is_game_closed>>
       ELSE /\ is_game_closed' = TRUE
            /\ players' = [i \in 1..Len(players) |->
                              [players[i] EXCEPT !.score = @ + Len(players[i].hand) * 10]]
    /\ UNCHANGED <<deck_draw_pile, deck_discard_pile, melds_on_table,
                   current_round, current_player_index, closer_name, scores,
                   vin, vout>>

\* Faulty variant (sensitivity of C22): a missing card is passed over in silence.
RemoveCardIfPresent(pos, card) ==
    /\ pos \in 1..Len(players)
    /\ players' = [players EXCEPT ![pos].hand =
                      IF Contains(@, card) THEN ListRemove(@, card) ELSE @]
    /\ last' = Call("remove_card", players[pos].name, "None")
    /\ UNCHANGED <<deck_draw_pile, deck_discard_pile, melds_on_table,
                   current_round, current_player_index, is_game_closed,
                   closer_name, scores, vin, vout>>

\* Player.remove_card, called on the player at position pos: list.remove
\* takes out the first equal card, ValueError when the hand holds none.
RemoveCard(pos, card) ==
    /\ pos \in 1..Len(players)
    /\ IF Contains(players[pos].hand, card)
       THEN /\ players' = [players EXCEPT ![pos].hand = ListRemove(@, card)]
            /\ last' = Call("remove_card", players[pos].name, "None")
       ELSE /\ last' = Call("remove_card", players[pos].name, "ValueError")
            /\ UNCHANGED players
    /\ UNCHANGED <<deck_draw_pile, deck_discard_pile, melds_on_table,
                   current_round, current_player_index, is_game_closed,
                   closer_name, scores, vin, vout>>

\* Card.to_dict and Card.from_dict
CardToDict(card) == [suit |-> card.suit, rank |-> card.rank, is_joker |-> card.is_joker]

CardFromDict(data) == [suit |-> data.suit, rank |-> data.rank, is_joker |-> data.is_joker]

CardsToDict(cards) == [i \in 1..Len(cards) |-> CardToDict(cards[i])]

CardsFromDict(data) == [i \in 1..Len(data) |-> CardFromDict(data[i])]

\* Player.to_dict (the score is not written) and Player.from_dict
PlayerToDict(player) ==
    [name |-> player.name, hand |-> CardsToDict(player.hand),
     has_declared |-> player.has_declared]

PlayerFromDict(data) ==
    [name |-> data.name, hand |-> CardsFromDict(data.hand),
     has_declared |-> data.has_declared, score |-> 0]

\* Meld.to_dict and Meld.from_dict
MeldToDict(meld) == [type |-> meld.type, cards |-> CardsToDict(meld.cards)]

MeldFromDict(data) == [type |-> data.type, cards |-> CardsFromDict(data.cards)]

\* The GameState of the current state as one record.
ThisGame ==
    [players |-> players, draw_pile |-> deck_draw_pile,
     discard_pile |-> deck_discard_pile, melds_on_table |-> melds_on_table,
     current_round |-> current_round,
     current_player_index |-> current_player_index,
     is_game_closed |-> is_game_closed, closer_name |-> closer_name,
     scores |-> scores]

\* GameState.to_dict (closer_name and scores are not written)
ToDict(gs) ==
    [players |-> [i \in 1..Len(gs.players) |-> PlayerToDict(gs.players[i])],
     draw_pile |-> CardsToDict(gs.draw_pile),
     discard_pile |-> CardsToDict(gs.discard_pile),
     melds_on_table |->
         [i \in 1..Len(gs.melds_on_table) |-> MeldToDict(gs.melds_on_table[i])],
     current_round |-> gs.current_round,
     current_player_index |-> gs.current_player_index,
     is_game_closed |-> gs.is_game_closed]

\* GameState.from_dict: the constructor is given the round and the index,
\* then the players, the piles and the table are set; every other field
\* keeps the default of the dataclass.
FromDict(data) ==
    [players |-> [i \in 1..Len(data.players) |-> PlayerFromDict(data.players[i])],
     draw_pile |-> CardsFromDict(data.draw_pile),
     discard_pile |-> CardsFromDict(data.discard_pile),
     melds_on_table |->
         [i \in 1..Len(data.melds_on_table) |-> MeldFromDict(data.melds_on_table[i])],
     current_round |-> data.current_round,
     current_player_index |-> data.current_player_index,
     is_game_closed |-> FALSE,
     closer_name |-> "None",
     scores |-> [n \in {} |-> 0]]

\* The game continues on the GameState restored from its own snapshot.
SaveAndRestore ==
    LET restored == FromDict(ToDict(ThisGame))
    IN  /\ players' = restored.players
        /\ deck_draw_pile' = restored.draw_pile
        /\ deck_discard_pile' = restored.discard_pile
        /\ melds_on_table' = restored.melds_on_table
        /\ current_round' = restored.current_round
        /\ current_player_index' = restored.current_player_index
        /\ is_game_closed' = restored.is_game_closed
        /\ closer_name' = restored.closer_name
        /\ scores' = restored.scores
        /\ last' = Call("from_dict", "", "GameState")
        /\ UNCHANGED <<vin, vout>>

-----------------------------------------------------------------------------
(* Handlers of main.py, called by the game loop with the current player    *)

\* Faulty variant (sensitivity of C24): an empty draw pile is refilled from
\* the discard pile.
DrawFromDeckRefilling ==
    /\ CurrentPlayer # 0
    /\ IF deck_draw_pile = <<>>
       THEN /\ last' = Call("draw", players[CurrentPlayer].name, "None")
            /\ deck_draw_pile' = Reverse(deck_discard_pile)
            /\ deck_discard_pile' = <<>>
            /\ UNCHANGED players
       ELSE /\ players' = [players EXCEPT
                              ![CurrentPlayer].hand = Append(@, TopCard(deck_draw_pile))]
            /\ deck_draw_pile' = Pop(deck_draw_pile)
            /\ last' = Call("draw", players[CurrentPlayer].name, "Card")
            /\ UNCHANGED deck_discard_pile
    /\ UNCHANGED <<melds_on_table, current_round, current_player_index,
                   is_game_closed, closer_name, scores, vin, vout>>

\* "Draw from deck": Deck.draw, then Player.add_card when a card came back.
DrawFromDeck ==
    /\ CurrentPlayer # 0
    /\ IF deck_draw_pile = <<>>
       THEN /\ last' = Call("draw", players[CurrentPlayer].name, "None")
            /\ UNCHANGED <<players, deck_draw_pile>>
       ELSE /\ players' = [players EXCEPT
                              ![CurrentPlayer].hand = Append(@, TopCard(deck_draw_pile))]
            /\ deck_draw_pile' = Pop(deck_draw_pile)
            /\ last' = Call("draw", players[CurrentPlayer].name, "Card")
    /\ UNCHANGED <<deck_discard_pile, melds_on_table, current_round,
                   current_player_index, is_game_closed, closer_name, scores,
                   vin, vout>>

\* The discard step of the turn: taken while the hand holds more than 7
\* cards; Player.remove_card of the chosen card, then Deck.discard.
DiscardCard(card_idx) ==
    /\ CurrentPlayer # 0
    /\ Len(players[CurrentPlayer].hand) > 7
    /\ Len(deck_discard_pile) < MaxDiscards
    /\ card_idx \in 1..Len(players[CurrentPlayer].hand)
    /\ LET discarded_card == players[CurrentPlayer].hand[card_idx]
       IN  /\ players' = [players EXCEPT
                             ![CurrentPlayer].hand = ListRemove(@, discarded_card)]
           /\ deck_discard_pile' = Append(deck_discard_pile, discarded_card)
    /\ last' = Call("discard", players[CurrentPlayer].name, "None")
    /\ UNCHANGED <<deck_draw_pile, melds_on_table, current_round,
                   current_player_index, is_game_closed, closer_name, scores,
                   vin, vout>>

\* The loop of extend_meld: for every added card, Player.remove_card
\* (ValueError when the hand no longer holds it) and meld.cards.append.
RECURSIVE ExtendLoop(_, _, _)
ExtendLoop(hand, cards, added) ==
    IF added = <<>> THEN [hand |-> hand, cards |-> cards, ret |-> "True"]
    ELSE IF ~Contains(hand, Head(added))
    THEN [hand |-> hand, cards |-> cards, ret |-> "ValueError"]
    ELSE ExtendLoop(ListRemove(hand, Head(added)), Append(cards, Head(added)),
                    Tail(added))

\* Faulty variant (sensitivity of C17): the added cards go in front of the meld.
ExtendAtFront(hand, meld, added_cards) ==
    IF ValidateExtension(meld, added_cards)
    THEN [hand |-> ExtendLoop(hand, meld.cards, added_cards).hand,
          cards |-> added_cards \o meld.cards,
          ret |-> ExtendLoop(hand, meld.cards, added_cards).ret]
    ELSE [hand |-> hand, cards |-> meld.cards, ret |-> "False"]

\* extend_meld after the meld and the cards are selected.
ExtendOutcome(hand, meld, added_cards) ==
    IF ValidateExtension(meld, added_cards)
    THEN ExtendLoop(hand, meld.cards, added_cards)
    ELSE [hand |-> hand, cards |-> meld.cards, ret |-> "False"]

\* select_cards_from_hand: the cards at the chosen positions of the hand.
SelectedCards(hand, indices) == [k \in 1..Len(indices) |-> hand[indices[k]]]

\* The selections explored: one card, one card chosen twice, two neighbours.
Selections(hand) ==
    { <<i>> : i \in 1..Len(hand) }
    \cup { <<i, i>> : i \in 1..Len(hand) }
    \cup { <<i, i + 1>> : i \in 1..(Len(hand) - 1) }

CurrentHand == IF CurrentPlayer = 0 THEN <<>> ELSE players[CurrentPlayer].hand

\* GameState.can_player_close
CanPlayerClose(player) == player.has_declared /\ Len(player.hand) <= 1

\* The round from which the turn menu offers declaring, extending and closing.
MeldingRound == 4

\* extend_meld(game_state, player), offered to the current player
ExtendMeld(meld_index, indices) ==
    /\ CurrentPlayer # 0
    /\ current_round >= MeldingRound
    /\ players[CurrentPlayer].has_declared
    /\ meld_index \in 1..Len(melds_on_table)
    /\ indices \in Selections(players[CurrentPlayer].hand)
    /\ LET out == ExtendOutcome(players[CurrentPlayer].hand,
                                melds_on_table[meld_index],
                                SelectedCards(players[CurrentPlayer].hand, indices))
       IN  /\ players' = [players EXCEPT ![CurrentPlayer].hand = out.hand]
           /\ melds_on_table' = [melds_on_table EXCEPT ![meld_index].cards = out.cards]
           /\ last' = Call("extend_meld", players[CurrentPlayer].name, out.ret)
    /\ UNCHANGED <<deck_draw_pile, deck_discard_pile, current_round,
                   current_player_index, is_game_closed, closer_name, scores,
                   vin, vout>>

\* handle_game_closure(game_state, player), offered to the current player
HandleGameClosure(confirm) ==
    /\ CurrentPlayer # 0
    /\ current_round >= MeldingRound
    /\ CanPlayerClose(players[CurrentPlayer])
    /\ MayScore
    /\ LET p == players[CurrentPlayer]
           emptied == [players EXCEPT ![CurrentPlayer].hand = <<>>]
       IN  IF ~p.has_declared \/ Len(p.hand) > 1 \/ (Len(p.hand) = 1 /\ ~confirm)
           THEN /\ last' = Call("handle_game_closure", p.name, "False")
                /\ UNCHANGED <<players, is_game_closed, closer_name, scores>>
           ELSE /\ last' = Call("handle_game_closure", p.name,
                                CloseGameOutcome(emptied, p.name))
                /\ CloseGameEffect(emptied, p.name)
    /\ UNCHANGED <<deck_draw_pile, deck_discard_pile, melds_on_table,
                   current_round, current_player_index, vin, vout>>

-----------------------------------------------------------------------------
(* The declarations explored                                               *)

Meld(type, cards) == [type |-> type, cards |-> cards]

HeartsRun == Meld("sequence", SubSeq(HandA, 1, 4))

TensSet == Meld("set", SubSeq(HandA, 5, 7))

DiamondsJokerRun == Meld("sequence", SubSeq(HandA, 8, 10))

DiamondsRun == Meld("sequence", SubSeq(HandB, 1, 3))

QueensSet == Meld("set", SubSeq(HandB, 4, 6))

Declarations ==
    { <<HeartsRun, TensSet, DiamondsJokerRun>>,
      <<HeartsRun, TensSet>>,
      <<DiamondsJokerRun, TensSet>>,
      <<HeartsRun>>,
      <<DiamondsRun, QueensSet>>,
      <<HeartsRun, Meld("set", SubSeq(HandA, 5, 8))>>,
      <<Meld("sequence", SubSeq(HandA, 1, 3)), HeartsRun>> }

-----------------------------------------------------------------------------
(* Spec: the game after the deal                                           *)

Next ==
    \/ NextTurn
    \/ \E name \in CallNames, melds \in Declarations :
           ValidateAndProcessDeclaration(name, melds)
    \/ \E name \in CallNames : CloseGame(name)
    \/ \E meld_index \in 1..Len(melds_on_table), indices \in Selections(CurrentHand) :
           ExtendMeld(meld_index, indices)
    \/ \E confirm \in BOOLEAN : HandleGameClosure(confirm)

Spec == Init /\ [][Next]_vars

-----------------------------------------------------------------------------
(* SpecDeck: a freshly built Deck under the draw and discard steps of the  *)
(* turn, all taken by the first player                                     *)

InitDeck ==
    /\ players = <<Player("P1"), Player("P2")>>
    /\ deck_draw_pile = BuildDeck
    /\ deck_discard_pile = <<>>
    /\ melds_on_table = <<>>
    /\ current_round = 1
    /\ current_player_index = 0
    /\ is_game_closed = FALSE
    /\ closer_name = "None"
    /\ scores = [n \in {} |-> 0]
    /\ last = NoCall
    /\ vin = NoInput
    /\ vout = "None"

NextDeck ==
    \/ DrawFromDeck
    \/ \E card_idx \in {1, Len(CurrentHand)} : DiscardCard(card_idx)

SpecDeck == InitDeck /\ [][NextDeck]_vars

-----------------------------------------------------------------------------
(* SpecV: the Validator applied to enumerated arguments                    *)

Hearts(r) == Card("Hearts", r)

\* The cards the enumerated card lists are made of.
SeqCards ==
    { Hearts("A"), Hearts("2"), Hearts("3"), Hearts("J"), Hearts("Q"),
      Hearts("K"), Card("Spades", "K"), Joker }

MaxLen == 4

ListsOf(S, n) == [1..n -> S]

CardLists == UNION { ListsOf(SeqCards, n) : n \in 2..MaxLen }

FullRun == [i \in 1..Len(RANKS) |-> Hearts(RANKS[i])]

\* Lists longer than MaxLen: a whole suit, a whole suit with jokers for two
\* of its ranks, a whole suit and one joker more, an Ace and a King with a
\* joker for every rank between them.
LongLists ==
    { FullRun,
      [FullRun EXCEPT ![5] = Joker, ![9] = Joker],
      Append(FullRun, Joker),
      <<Hearts("A"), Hearts("K")>> \o [i \in 1..11 |-> Joker] }

\* The cards the enumerated sets are made of.
SetCards ==
    { Hearts("K"), Card("Spades", "K"), Card("Diamonds", "K"),
      Card("Clubs", "K"), Hearts("Q"), Joker }

SetLists == UNION { ListsOf(SetCards, n) : n \in 2..MaxLen }

\* Lists of five cards: jokers only, the four Kings and a joker, three and
\* two Kings with jokers.
LongSets ==
    { [i \in 1..5 |-> Joker],
      <<Hearts("K"), Card("Spades", "K"), Card("Diamonds", "K"),
        Card("Clubs", "K"), Joker>>,
      <<Hearts("K"), Card("Spades", "K"), Card("Diamonds", "K"), Joker, Joker>>,
      <<Hearts("K"), Card("Spades", "K"), Joker, Joker, Joker>> }

NewMeldInputs ==
    { [NoInput EXCEPT !.op = "new_meld", !.cards = c, !.kind = k] :
        c \in CardLists \cup LongLists \cup SetLists \cup LongSets,
        k \in {"set", "sequence"} }

\* Sets to extend: every list of three cards, and sets of four.
SetsToExtend ==
    ListsOf(SetCards, 3)
    \cup { <<Hearts("K"), Card("Spades", "K"), Card("Diamonds", "K"), Card("Clubs", "K")>>,
           <<Hearts("K"), Joker, Card("Diamonds", "K"), Joker>> }

ExtensionInputs ==
    { [NoInput EXCEPT !.op = "extension", !.cards = c, !.kind = k, !.added = a] :
        c \in ListsOf(SeqCards, 3), k \in {"set", "sequence"},
        a \in {<<>>} \cup ListsOf(SeqCards, 1) }
    \cup
    { [NoInput EXCEPT !.op = "extension", !.cards = c, !.kind = "set", !.added = a] :
        c \in SetsToExtend,
        a \in {<<>>} \cup ListsOf(SetCards, 1) \cup ListsOf(SetCards, 2) }
    \cup
    { [NoInput EXCEPT !.op = "extension", !.cards = FullRun, !.kind = "sequence",
                      !.added = a] :
        a \in { <<Joker>>, <<Hearts("K")>> } }

\* The melds and hands of the enumerated declarations.
DeclMelds ==
    { Meld("sequence", <<Hearts("Q"), Hearts("K"), Hearts("A")>>),
      Meld("sequence", <<Hearts("Q"), Joker, Hearts("A")>>),
      Meld("sequence", <<Hearts("2"), Hearts("3"), Hearts("4")>>),
      Meld("sequence", <<Hearts("3"), Hearts("4"), Hearts("5"), Hearts("6")>>),
      Meld("sequence", <<Card("Spades", "9"), Card("Spades", "10"), Card("Spades", "J")>>),
      Meld("sequence", <<Hearts("7"), Card("Spades", "8"), Hearts("9")>>),
      DiamondsRun,
      QueensSet,
      TensSet,
      Meld("set", <<Hearts("K"), Hearts("K"), Card("Clubs", "K")>>) }

MaxMelds == 2

DeclLists == UNION { ListsOf(DeclMelds, n) : n \in 1..MaxMelds }

RangeOf(s) == { s[i] : i \in 1..Len(s) }

\* One copy of every card of DeclMelds (the Ks of the last one twice).
OneOfEach ==
    <<Hearts("Q"), Hearts("K"), Hearts("A"), Joker, Hearts("2"), Hearts("3"),
      Hearts("4"), Hearts("5"), Hearts("6"), Card("Spades", "9"),
      Card("Spades", "10"), Card("Spades", "J"), Hearts("7"),
      Card("Spades", "8"), Hearts("9")>>
    \o DiamondsRun.cards \o QueensSet.cards \o TensSet.cards
    \o <<Hearts("K"), Card("Clubs", "K")>>

DeclHands ==
    { OneOfEach,
      OneOfEach \o <<Hearts("Q"), Hearts("A"), Card("Spades", "Q")>>,
      <<Hearts("Q"), Hearts("K"), Hearts("A")>> \o TensSet.cards
        \o <<Hearts("2"), Card("Spades", "3")>> }

DeclarationInputs ==
    { [NoInput EXCEPT !.op = "declaration", !.hand = h, !.melds = m] :
        h \in DeclHands, m \in DeclLists }

Bool(b) == IF b THEN "True" ELSE "False"

InitV ==
    /\ players = <<>>
    /\ deck_draw_pile = <<>>
    /\ deck_discard_pile = <<>>
    /\ melds_on_table = <<>>
    /\ current_round = 1
    /\ current_player_index = 0
    /\ is_game_closed = FALSE
    /\ closer_name = "None"
    /\ scores = [n \in {} |-> 0]
    /\ last = NoCall
    /\ vin \in NewMeldInputs \cup ExtensionInputs \cup DeclarationInputs
    /\ vout = "None"

CallNewMeld ==
    /\ vin.op = "new_meld" /\ vout = "None"
    /\ vout' = Bool(ValidateNewMeld(vin.cards, vin.kind))
    /\ UNCHANGED <<gameVars, last, vin>>

CallExtension ==
    /\ vin.op = "extension" /\ vout = "None"
    /\ vout' = Bool(ValidateExtension(Meld(vin.kind, vin.cards), vin.added))
    /\ UNCHANGED <<gameVars, last, vin>>

CallDeclaration ==
    /\ vin.op = "declaration" /\ vout = "None"
    /\ vout' = Bool(ValidateInitialDeclaration(vin.hand, vin.melds))
    /\ UNCHANGED <<gameVars, last, vin>>

NextV == CallNewMeld \/ CallExtension \/ CallDeclaration

SpecV == InitV /\ [][NextV]_vars

-----------------------------------------------------------------------------
(* SpecScore: Scorer.calculate_scores on enumerated games                  *)

\* The hands left when the game closes.
ScoreHands ==
    { <<>>,
      <<Joker>>,
      <<Joker, Card("Spades", "K"), Joker>>,
      <<Hearts("A"), Hearts("5")>>,
      <<Hearts("J"), Hearts("10"), Joker, Card("Clubs", "2")>> }

ScorePlayers(n) ==
    { [name |-> n, hand |-> h, has_declared |-> d, score |-> 0] :
        h \in ScoreHands, d \in BOOLEAN }

ScoreGames ==
    { <<a, b>> : a \in ScorePlayers("P1"), b \in ScorePlayers("P2") }
    \cup { <<a, b, c>> : a \in ScorePlayers("P1"), b \in ScorePlayers("P2"),
                         c \in ScorePlayers("P3") }

InitScore ==
    /\ players \in ScoreGames
    /\ deck_draw_pile = <<>>
    /\ deck_discard_pile = <<>>
    /\ melds_on_table = <<>>
    /\ current_round = 1
    /\ current_player_index = 0
    /\ is_game_closed = FALSE
    /\ closer_name = "None"
    /\ scores = [n \in {} |-> 0]
    /\ last = NoCall
    /\ vin = NoInput
    /\ vout = "None"

\* scorer.calculate_scores(game_state, closer_name), the result kept in scores
CallCalculateScores(closer) ==
    /\ last = NoCall
    /\ scores' = CalculateScores(players, closer)
    /\ last' = Call("calculate_scores", closer, "None")
    /\ UNCHANGED <<players, deck_draw_pile, deck_discard_pile, melds_on_table,
                   current_round, current_player_index, is_game_closed,
                   closer_name, vin, vout>>

NextScore == \E closer \in CallNames \cup JoinNames : CallCalculateScores(closer)

SpecScore == InitScore /\ [][NextScore]_vars

-----------------------------------------------------------------------------
(* SpecTurn: a new GameState under add_player, remove_player, next_turn    *)

TurnNames == {"P1", "P2", "P3", "P4"}

\* GameState(): the defaults of the dataclass fields
InitTurn ==
    /\ players = <<>>
    /\ deck_draw_pile = <<>>
    /\ deck_discard_pile = <<>>
    /\ melds_on_table = <<>>
    /\ current_round = 1
    /\ current_player_index = 0
    /\ is_game_closed = FALSE
    /\ closer_name = "None"
    /\ scores = [n \in {} |-> 0]
    /\ last = NoCall
    /\ vin = NoInput
    /\ vout = "None"

NextOfTurn ==
    \/ NextTurn
    \/ \E name \in TurnNames : AddPlayer(name)
    \/ \E name \in TurnNames \cup {"Nobody"} : RemovePlayer(name)

SpecTurn == InitTurn /\ [][NextOfTurn]_vars

-----------------------------------------------------------------------------
(* SpecApi: a GameState built by its caller, under direct calls of its     *)
(* methods and of Player.remove_card                                       *)

\* A hand that the declaration HeartsRun, TensSet, DiamondsJokerRun uses up.
MeldHand == SubSeq(HandA, 1, 10)

ApiDeclarations == { <<HeartsRun, TensSet, DiamondsJokerRun>>, <<HeartsRun>> }

\* The cards passed to Player.remove_card; no hand holds the second one.
ApiCards == { Hearts("5"), Card("Spades", "K") }

\* The rounds of the exploration.
MaxApiRound == 2

\* A game of two put together by the caller: P1 holds MeldHand and has not
\* declared, P2 has declared and holds no card, QueensSet lies on the table.
\* The piles are the lists draw_pile and discard_pile of the GameState.
InitApi ==
    /\ players = << [Player("P1") EXCEPT !.hand = MeldHand],
                    [Player("P2") EXCEPT !.has_declared = TRUE] >>
    /\ deck_draw_pile = <<Card("Spades", "K"), Card("Clubs", "2")>>
    /\ deck_discard_pile = <<Card("Clubs", "Q")>>
    /\ melds_on_table = <<QueensSet>>
    /\ current_round = 1
    /\ current_player_index = 0
    /\ is_game_closed = FALSE
    /\ closer_name = "None"
    /\ scores = [n \in {} |-> 0]
    /\ last = NoCall
    /\ vin = NoInput
    /\ vout = "None"

NextApi ==
    \/ current_round < MaxApiRound /\ NextTurn
    \/ \E name \in JoinNames : AddPlayer(name)
    \/ \E name \in CallNames \cup JoinNames : RemovePlayer(name)
    \/ \E name \in CallNames, melds \in ApiDeclarations :
           ValidateAndProcessDeclaration(name, melds)
    \/ \E name \in CallNames \cup JoinNames : CloseGame(name)
    \/ EndGame
    \/ \E pos \in 1..Len(players), card \in ApiCards : RemoveCard(pos, card)
    \/ SaveAndRestore

SpecApi == InitApi /\ [][NextApi]_vars

-----------------------------------------------------------------------------
(* Properties                                                              *)

Count(s, c) == Cardinality({ i \in 1..Len(s) : s[i] = c })

Hands(ps) == [i \in 1..Len(ps) |-> ps[i].hand]

AllCards ==
    deck_draw_pile \o deck_discard_pile \o Flatten(Hands(players))
    \o MeldCards(melds_on_table)

CurrentName == IF CurrentPlayer = 0 THEN "None" ELSE players[CurrentPlayer].name

\* C1: the draw pile, the discard pile, the hands and the table melds
\* together always hold 108 cards: 4 jokers and 2 copies of each of the 52
\* rank/suit pairs.
C1_CardConservation ==
    /\ Len(AllCards) = 108
    /\ Count(AllCards, Joker) = 4
    /\ \A i \in 1..Len(StandardDeck) : Count(AllCards, StandardDeck[i]) = 2

\* C2: once the game is closed it stays closed, and no later call of
\* next_turn, add_player, remove_player or validate_and_process_declaration
\* changes a hand, the table, the turn pointer or the round.
C2_ClosureTerminal ==
    [][is_game_closed =>
          /\ is_game_closed'
          /\ last'.op \in {"next_turn", "add_player", "remove_player", "declare"} =>
                /\ Hands(players') = Hands(players)
                /\ UNCHANGED <<melds_on_table, current_player_index, current_round>>]_vars

\* C3: a declaration call that returns False leaves every hand, every
\* has_declared flag and the table as they were.
C3_RejectedDeclarationNoEffect ==
    [][(last'.op = "declare" /\ last'.ret = "False") =>
          UNCHANGED <<players, melds_on_table>>]_vars

\* C3 witness: a declaration of a player who has not declared was rejected.
C3_Witness ==
    /\ last.op = "declare" /\ last.ret = "False"
    /\ FindPlayer(players, last.name) # 0
    /\ ~players[FindPlayer(players, last.name)].has_declared
    /\ Len(players[FindPlayer(players, last.name)].hand) = CardsPerPlayer

\* a is b with some elements left out, the order kept.
RECURSIVE IsSubsequence(_, _)
IsSubsequence(a, b) ==
    IF a = <<>> THEN TRUE
    ELSE IF b = <<>> THEN FALSE
    ELSE IF Head(a) = Head(b) THEN IsSubsequence(Tail(a), Tail(b))
    ELSE IsSubsequence(a, Tail(b))

C4_Committed(name, melds) ==
    LET pos == CHOOSE i \in 1..Len(players) : players[i].name = name
        old == players[pos].hand
        new == players'[pos].hand
    IN  /\ players'[pos].has_declared
        /\ Len(new) = Len(old) - Len(MeldCards(melds))
        /\ \A c \in RangeOf(old) : Count(new, c) = Count(old, c) - Count(MeldCards(melds), c)
        /\ IsSubsequence(new, old)
        /\ melds_on_table' = melds_on_table \o melds

\* C4: a declaration call that returns True sets has_declared, takes exactly
\* one copy of every card of every declared meld out of the hand and appends
\* the declared melds to the table in the order given.
C4_AcceptedDeclarationCommits ==
    [][\A name \in CallNames, melds \in Declarations :
          (ValidateAndProcessDeclaration(name, melds) /\ last'.ret = "True") =>
              C4_Committed(name, melds)]_vars

\* C4 witness: a declaration of three melds was accepted.
C4_Witness ==
    /\ last.op = "declare" /\ last.ret = "True"
    /\ Len(melds_on_table) = 3
    /\ Len(players[FindPlayer(players, last.name)].hand) = CardsPerPlayer - 10

\* The points of the claim: A=10, 2..10 face value, J/Q/K=10, joker=20.
ClaimPoints(c) ==
    IF c.is_joker THEN 20
    ELSE IF c.rank \in {"A", "J", "Q", "K"} THEN 10
    ELSE RankValue(c.rank)

C5_Conditions(hand, melds) ==
    /\ \A c \in RangeOf(MeldCards(melds)) : Count(MeldCards(melds), c) <= Count(hand, c)
    /\ SumSeq([i \in 1..Len(MeldCards(melds)) |-> ClaimPoints(MeldCards(melds)[i])]) >= 48
    /\ \E i \in 1..Len(melds) :
          /\ melds[i].type = "sequence"
          /\ Count(melds[i].cards, Joker) = 0
          /\ IsValidSequence(melds[i].cards)
    /\ \A i \in 1..Len(melds) : ValidateNewMeld(melds[i].cards, melds[i].type)

\* C5: validate_initial_declaration returns True exactly when the meld cards
\* are in the hand with their multiplicities, the points are at least 48,
\* one meld is a valid sequence without jokers and every meld is valid.
C5_DeclarationIff ==
    (vin.op = "declaration" /\ vout # "None") =>
        (vout = "True" <=> C5_Conditions(vin.hand, vin.melds))

\* C5 witness: a declaration worth exactly 48 points was accepted.
C5_Witness ==
    /\ vin.op = "declaration" /\ vout = "True"
    /\ CalculateMeldPoints(vin.melds) = 48

RegularRanks(cards) == { cards[i].rank : i \in { j \in 1..Len(cards) : ~cards[j].is_joker } }

KingAndAce(cards) == {"K", "A"} \subseteq RegularRanks(cards)

\* With the Ace valued 1: the non-jokers have distinct ranks and there is a
\* joker for every rank between the lowest and the highest that no card has.
GapsFilled(cards) ==
    LET regular == SelectSeq(cards, NotJoker)
        values == { RankValue(r) : r \in RegularRanks(cards) }
        low == CHOOSE v \in values : \A w \in values : v <= w
        high == CHOOSE v \in values : \A w \in values : w <= v
    IN  /\ Cardinality(values) = Len(regular)
        /\ Cardinality((low..high) \ values) <= Len(cards) - Len(regular)

SequenceAccepted ==
    vin.op = "new_meld" /\ vin.kind = "sequence" /\ vout = "True"

C7_NoExtensionPastKing ==
    (/\ vin.op = "extension" /\ vin.kind = "sequence" /\ vout # "None"
     /\ IsValidSequence(vin.cards)
     /\ "K" \in RegularRanks(vin.cards)
     /\ \E i \in 1..Len(vin.cards) :
           /\ ~vin.cards[i].is_joker
           /\ vin.added = <<Card(vin.cards[i].suit, "A")>>)
    => vout = "False"

\* C8: an extend_meld call that does not return True leaves every hand and
\* the table as they were.
C8_ExtensionAllOrNothing ==
    [][(last'.op = "extend_meld" /\ last'.ret # "True") =>
          UNCHANGED <<players, melds_on_table>>]_vars

\* C9 as stated: a declaration or close_game call naming a player who is
\* not the current player changes nothing.
C9_OnlyCurrentPlayerMutates ==
    [][(last'.op \in {"declare", "close_game"} /\ last'.name # CurrentName) =>
          UNCHANGED <<players, melds_on_table, is_game_closed, closer_name, scores>>]_vars

\* C9 amended: a declaration or close_game call acts on the player it names,
\* whoever's turn it is: it changes the hand and has_declared of no other
\* player, and a successful close_game records the named player as closer.
C9_OnlyNamedPlayerMutates ==
    [][last'.op \in {"declare", "close_game"} =>
          /\ Len(players') = Len(players)
          /\ \A i \in 1..Len(players) :
                players[i].name # last'.name =>
                    /\ players'[i].hand = players[i].hand
                    /\ players'[i].has_declared = players[i].has_declared
          /\ (last'.op = "close_game" /\ last'.ret = "True") =>
                closer_name' = last'.name]_vars

\* C9 witness: a declaration of a player other than the current one was accepted.
C9_Witness ==
    /\ last.op = "declare" /\ last.ret = "True"
    /\ CurrentName # last.name
    /\ players[FindPlayer(players, last.name)].has_declared

\* C10 as stated: cards_remaining() + discard_pile_size() is 108.
C10_DeckSum == Len(deck_draw_pile) + Len(deck_discard_pile) = 108

\* C10 amended: cards_remaining() + discard_pile_size() plus the number of
\* cards drawn and not discarded is 108.
C10_DeckSumWithHeld ==
    Len(deck_draw_pile) + Len(deck_discard_pile) + Len(Flatten(Hands(players))) = 108

\* C10 witness: cards were drawn and one of them discarded.
C10_Witness ==
    /\ Len(deck_discard_pile) = 1
    /\ Len(deck_draw_pile) < 100
    /\ Len(CurrentHand) > 0

C11_Outcome(name) ==
    LET pos == CHOOSE i \in 1..Len(players) : players[i].name = name
    IN  IF players[pos].hand # <<>>
        THEN /\ last'.ret = "False"
             /\ UNCHANGED <<is_game_closed, closer_name, scores>>
             /\ \A i \in 1..Len(players) : players'[i].score = players[i].score
        ELSE /\ last'.ret = "True"
             /\ is_game_closed' = TRUE
             /\ closer_name' = name
             /\ scores' = CalculateScores(players, name)
             /\ \A i \in 1..Len(players) :
                   players'[i].score = players[i].score + scores'[players[i].name]
             /\ players'[pos].score = players[pos].score

\* C11: close_game(name) for an existing player returns False and changes
\* no closure field and no accumulated score when the hand is non-empty;
\* otherwise it returns True, closes the game, records the closer, stores
\* the scorer's result and adds to every player's accumulated score that
\* player's entry (0 for the closer).
C11_CloseGameResult ==
    [][\A name \in CallNames :
          (CloseGame(name) /\ \E i \in 1..Len(players) : players[i].name = name) =>
              C11_Outcome(name)]_vars

\* C11 witness: a close_game call returned True and a player was charged.
C11_Witness ==
    /\ last.op = "close_game" /\ last.ret = "True"
    /\ closer_name = last.name
    /\ \E i \in 1..Len(players) :
          players[i].name # last.name /\ players[i].score >= 2 * scores[players[i].name]
                                      /\ scores[players[i].name] > 0

C12_HandPoints(hand) ==
    SumSeq([i \in 1..Len(hand) |->
        IF hand[i].is_joker THEN 10 ELSE ClaimPoints(hand[i])])

\* C12: calculate_scores for a closer who is a player returns one entry per
\* player: 0 for the closer, 100 + 50 per joker in hand for every other
\* player who has not declared, and for every other player who has declared
\* the card points of the hand (A=10, 2..10 face value, J/Q/K=10, joker=10).
C12_ScoresPerPlayer ==
    (last.op = "calculate_scores" /\ \E i \in 1..Len(players) : players[i].name = last.name) =>
        /\ DOMAIN scores = { players[i].name : i \in 1..Len(players) }
        /\ \A i \in 1..Len(players) :
              scores[players[i].name] =
                  IF players[i].name = last.name THEN 0
                  ELSE IF ~players[i].has_declared
                  THEN 100 + 50 * Count(players[i].hand, Joker)
                  ELSE C12_HandPoints(players[i].hand)

\* C12 witness: scores computed for a game with an undeclared player
\* holding two jokers and a declared player holding a joker.
C12_Witness ==
    /\ last.op = "calculate_scores"
    /\ \E i, j \in 1..Len(players) :
          /\ players[i].name # last.name /\ ~players[i].has_declared
          /\ Count(players[i].hand, Joker) = 2 /\ scores[players[i].name] = 200
          /\ players[j].name # last.name /\ players[j].has_declared
          /\ Count(players[j].hand, Joker) = 1 /\ scores[players[j].name] = 32

\* next_turn called k times in a row, n players.
RECURSIVE TurnsTaken(_, _, _, _)
TurnsTaken(idx, round, n, k) ==
    IF k = 0 THEN [index |-> idx, round |-> round]
    ELSE LET s == NextTurnStep(idx, round, n)
         IN  TurnsTaken(s.index, s.round, n, k - 1)

\* C13: with N >= 1 players and a valid current_player_index, N calls of
\* next_turn in a row raise current_round by exactly 1 and bring
\* current_player_index back to where it was.
C13_FullRound ==
    (players # <<>> /\ current_player_index < Len(players)) =>
        TurnsTaken(current_player_index, current_round, Len(players), Len(players))
            = [index |-> current_player_index, round |-> current_round + 1]

\* C13 witness: three players, the turn has gone round once and stands at
\* the second player.
C13_Witness ==
    /\ last.op = "next_turn"
    /\ Len(players) = 3
    /\ current_player_index = 1
    /\ current_round = 2

\* C14: while there are players, current_player_index is a valid index of
\* the player list.
C14_IndexValid ==
    players # <<>> =>
        (0 <= current_player_index /\ current_player_index < Len(players))

\* C14 witness: a player was removed from a game of three in the first round.
C14_Witness ==
    /\ last.op = "remove_player" /\ last.ret = "None"
    /\ Len(players) = 2
    /\ current_player_index = 0
    /\ current_round = 1
    /\ players[1].name = "P1" /\ players[2].name = "P2"

WellFormed(table) ==
    \A i \in 1..Len(table) :
        /\ Len(table[i].cards) >= 3
        /\ ValidateNewMeld(table[i].cards, table[i].type)

C17_TableAppendOnly ==
    [][/\ Len(melds_on_table') >= Len(melds_on_table)
       /\ \A i \in 1..Len(melds_on_table) :
             /\ melds_on_table'[i].type = melds_on_table[i].type
             /\ Len(melds_on_table'[i].cards) >= Len(melds_on_table[i].cards)
             /\ SubSeq(melds_on_table'[i].cards, 1, Len(melds_on_table[i].cards))
                    = melds_on_table[i].cards]_vars

\* C17 witness: a second declaration was appended behind three melds of
\* which one had been extended before.
C17_Witness ==
    /\ last.op = "declare" /\ last.ret = "True"
    /\ Len(melds_on_table) = 5
    /\ \E i \in 1..3 : Len(melds_on_table[i].cards) > 4

Regular(cards) == SelectSeq(cards, NotJoker)

\* The values of a set of distinct rank values in increasing order.
SortedValues(V) ==
    [k \in 1..Cardinality(V) |->
        CHOOSE v \in V : Cardinality({ w \in V : w < v }) = k - 1]

C18_Conditions(cards) ==
    LET values == { RankValue(r) : r \in RegularRanks(cards) }
        sorted == SortedValues(values)
    IN  /\ Len(cards) >= 3
        /\ Regular(cards) # <<>>
        /\ \A i, j \in 1..Len(Regular(cards)) :
              Regular(cards)[i].suit = Regular(cards)[j].suit
        /\ Cardinality(values) = Len(Regular(cards))
        /\ SumSeq([k \in 1..(Len(sorted) - 1) |-> sorted[k + 1] - sorted[k] - 1])
              <= Count(cards, Joker)

\* C18: for a card list whose non-jokers are not exactly one A, one K and
\* one Q, the sequence check returns True exactly when the list has 3 cards
\* or more, a non-joker, one suit among the non-jokers, no rank twice, and
\* gaps between the sorted rank values (A=1 .. K=13) summing to at most the
\* number of jokers.
C18_SequenceGapRule ==
    (/\ vin.op = "new_meld" /\ vin.kind = "sequence" /\ vout # "None"
     /\ ~(RegularRanks(vin.cards) = {"A", "K", "Q"} /\ Len(Regular(vin.cards)) = 3))
    => (vout = "True" <=> C18_Conditions(vin.cards))

\* C18 witness: A, joker, 3 of one suit was accepted as a sequence.
C18_Witness ==
    /\ vin.op = "new_meld" /\ vin.kind = "sequence" /\ vout = "True"
    /\ vin.cards = <<Hearts("A"), Joker, Hearts("3")>>

C19_Conditions(cards) ==
    /\ Len(cards) >= 3
    /\ \A i, j \in 1..Len(Regular(cards)) :
          /\ Regular(cards)[i].rank = Regular(cards)[j].rank
          /\ i # j => Regular(cards)[i].suit # Regular(cards)[j].suit
    /\ Count(cards, Joker)
          <= 4 - Cardinality({ Regular(cards)[i].suit : i \in 1..Len(Regular(cards)) })

\* C19: the set check returns True exactly when the list has 3 cards or
\* more, one rank among the non-jokers, no suit twice among them and at most
\* 4 minus the number of their suits jokers; no list of more than 4 cards is
\* accepted.
C19_SetRule ==
    (vin.op = "new_meld" /\ vin.kind = "set" /\ vout # "None") =>
        /\ vout = "True" <=> C19_Conditions(vin.cards)
        /\ vout = "True" => Len(vin.cards) <= 4

\* C19 witness: two Kings and two jokers were accepted as a set.
C19_Witness ==
    /\ vin.op = "new_meld" /\ vin.kind = "set" /\ vout = "True"
    /\ vin.cards = <<Hearts("K"), Joker, Card("Spades", "K"), Joker>>

C20_Conditions(existing, added) ==
    /\ added # <<>>
    /\ Len(existing) + Len(added) <= 4
    /\ \A i \in 1..Len(Regular(added)) :
          Regular(added)[i].rank = Regular(existing)[1].rank
    /\ \A i, j \in 1..Len(Regular(existing \o added)) :
          i # j => Regular(existing \o added)[i].suit # Regular(existing \o added)[j].suit

\* C20: for a set on the table that has a non-joker card, validate_extension
\* returns True exactly when cards are added, the set and the added cards
\* are at most 4, every added non-joker has the rank of the set and no suit
\* occurs twice among the non-jokers of both.
C20_SetExtensionRule ==
    (/\ vin.op = "extension" /\ vin.kind = "set" /\ vout # "None"
     /\ C19_Conditions(vin.cards)
     /\ Regular(vin.cards) # <<>>)
    => (vout = "True" <=> C20_Conditions(vin.cards, vin.added))

\* C20 witness: a set of two Kings and a joker was extended by a third King.
C20_Witness ==
    /\ vin.op = "extension" /\ vin.kind = "set" /\ vout = "True"
    /\ vin.cards = <<Hearts("K"), Card("Spades", "K"), Joker>>
    /\ vin.added = <<Card("Diamonds", "K")>>

\* The fields of the snapshot format on which two GameStates agree.
C21_Agree(r, s) ==
    /\ Len(r.players) = Len(s.players)
    /\ \A i \in 1..Len(s.players) :
           /\ r.players[i].name = s.players[i].name
           /\ r.players[i].hand = s.players[i].hand
           /\ r.players[i].has_declared = s.players[i].has_declared
    /\ r.draw_pile = s.draw_pile
    /\ r.discard_pile = s.discard_pile
    /\ r.melds_on_table = s.melds_on_table
    /\ r.current_round = s.current_round
    /\ r.current_player_index = s.current_player_index
    /\ r.is_game_closed = s.is_game_closed

\* C21: for every GameState s, GameState.from_dict(s.to_dict()) agrees with
\* s on the players in order (name, hand, has_declared), the draw pile, the
\* discard pile, the table melds, current_round, current_player_index and
\* is_game_closed.
C21_SnapshotRoundTrip == C21_Agree(FromDict(ToDict(ThisGame)), ThisGame)

\* C22: remove_player, validate_and_process_declaration and close_game
\* called with a name no player has, and Player.remove_card called with a
\* card the hand does not hold, each raise an error (no boolean comes back)
\* and leave the players, the hands, the piles, the table, the round, the
\* index, is_game_closed, closer_name and scores as they were.
C22_NotFoundNoEffect ==
    [][/\ (/\ last'.op \in {"remove_player", "declare", "close_game"}
           /\ FindPlayer(players, last'.name) = 0)
          => (last'.ret = "ValueError" /\ UNCHANGED gameVars)
       /\ \A pos \in 1..Len(players), card \in ApiCards :
              (RemoveCard(pos, card) /\ ~Contains(players[pos].hand, card))
              => (last'.ret = "ValueError" /\ UNCHANGED gameVars)]_vars

\* Player.remove_card has just failed on a hand that holds other cards.
C22_Witness ==
    /\ last.op = "remove_card" /\ last.ret = "ValueError"
    /\ \E i \in 1..Len(players) :
           /\ players[i].name = last.name
           /\ players[i].hand # <<>>
           /\ ~Contains(players[i].hand, Card("Spades", "K"))

\* C23: current_round starts at 1 and never decreases; it changes only in a
\* next_turn step taken at the last player's index, which adds exactly 1
\* and sets the index to 0; every other next_turn step adds 1 to the index
\* and keeps the round, next_turn without players changes nothing, and
\* add_player, remove_player, declaration and closure keep the round.
C23_RoundStepsOnWrap ==
    /\ current_round = 1
    /\ [][/\ current_round' >= current_round
          /\ current_round' # current_round
                => (/\ last'.op = "next_turn"
                    /\ players # <<>>
                    /\ current_player_index = Len(players) - 1)
          /\ (/\ last'.op = "next_turn"
              /\ players # <<>>
              /\ current_player_index = Len(players) - 1)
                => (current_round' = current_round + 1 /\ current_player_index' = 0)
          /\ (/\ last'.op = "next_turn"
              /\ players # <<>>
              /\ current_player_index # Len(players) - 1)
                => (/\ current_round' = current_round
                    /\ current_player_index' = current_player_index + 1)
          /\ (last'.op = "next_turn" /\ players = <<>>) => UNCHANGED gameVars
          /\ last'.op \in {"add_player", "remove_player", "declare", "close_game"}
                => current_round' = current_round]_vars

\* next_turn has just wrapped a game of three into the second round.
C23_Witness ==
    /\ last.op = "next_turn"
    /\ Len(players) = 3
    /\ current_round = 2
    /\ current_player_index = 0

\* C24: Deck.draw on a pile that holds cards removes the top card and hands
\* it over (the turn adds it to the current player's hand); on an empty
\* pile it returns None without an error, the draw pile stays empty and the
\* discard pile is not touched; no step ever adds a card to the draw pile.
C24_DrawTopOrNone ==
    [][/\ Len(deck_draw_pile') <= Len(deck_draw_pile)
       /\ last'.op = "draw"
             => IF deck_draw_pile # <<>>
                THEN /\ last'.ret = "Card"
                     /\ deck_draw_pile' =
                            SubSeq(deck_draw_pile, 1, Len(deck_draw_pile) - 1)
                     /\ players'[CurrentPlayer].hand =
                            Append(players[CurrentPlayer].hand,
                                   deck_draw_pile[Len(deck_draw_pile)])
                     /\ deck_discard_pile' = deck_discard_pile
                ELSE /\ last'.ret = "None"
                     /\ deck_draw_pile' = <<>>
                     /\ deck_discard_pile' = deck_discard_pile
                     /\ players' = players]_vars

\* A draw has just found the pile empty while the discard pile holds a card.
C24_Witness ==
    /\ last.op = "draw" /\ last.ret = "None"
    /\ deck_draw_pile = <<>>
    /\ deck_discard_pile # <<>>

\* C25: can_player_close(p) is True exactly when p has declared and holds at
\* most one card; the close action is taken only by a player for whom it is
\* True, it closes the game only with that player's hand empty (a single
\* remaining card has left the hand), and close_game returns True only for
\* an empty hand and refuses every other hand without changing anything.
C25_CloseOnlyWithEmptyHand ==
    /\ [](\A i \in 1..Len(players) :
              CanPlayerClose(players[i])
                  <=> (players[i].has_declared /\ Len(players[i].hand) \in {0, 1}))
    /\ [][/\ last'.op = "handle_game_closure"
                => (/\ players[CurrentPlayer].has_declared
                    /\ Len(players[CurrentPlayer].hand) \in {0, 1})
          /\ (last'.op = "handle_game_closure" /\ last'.ret = "True")
                => (/\ players'[CurrentPlayer].hand = <<>>
                    /\ is_game_closed'
                    /\ closer_name' = players[CurrentPlayer].name)
          /\ (last'.op = "handle_game_closure" /\ last'.ret # "True")
                => UNCHANGED gameVars
          /\ \A i \in 1..Len(players) :
                (last'.op = "close_game" /\ last'.name = players[i].name)
                    => IF players[i].hand = <<>>
                       THEN last'.ret = "True"
                       ELSE last'.ret = "False" /\ UNCHANGED gameVars]_vars

\* The close action has just closed the game for a player whose last card
\* left the hand on the way: the hand is empty and one card is in no pile,
\* no hand and no meld.
C25_Witness ==
    /\ last.op = "handle_game_closure" /\ last.ret = "True"
    /\ is_game_closed
    /\ \E i \in 1..Len(players) :
           players[i].name = last.name /\ players[i].hand = <<>>
    /\ Len(AllCards) = 107

\* C26: whenever close_game(name) returns True, the named player had
\* has_declared true, so can_player_close held for that player, right
\* before the call.
C26_CloseOnlyDeclared ==
    [][\A i \in 1..Len(players) :
          (/\ last'.op = "close_game"
           /\ last'.name = players[i].name
           /\ last'.ret = "True")
              => (players[i].has_declared /\ CanPlayerClose(players[i]))]_vars

\* C27: once close_game has returned True, no further close_game (of any
\* player with an empty hand) and no end_game changes closer_name, scores or
\* any player's accumulated score.
C27_ScoredAtMostOnce ==
    [][(/\ is_game_closed
        /\ closer_name # "None"
        /\ last'.op \in {"close_game", "end_game"})
          => (/\ closer_name' = closer_name
              /\ scores' = scores
              /\ Len(players') = Len(players)
              /\ \A i \in 1..Len(players) : players'[i].score = players[i].score)]_vars

\* C28: in a game of at least 2 players, remove_player(name) for a name
\* other than the current player's leaves the current player the same
\* player as before the call.
C28_RemoveOtherKeepsTurn ==
    [][\A name \in TurnNames :
          (/\ RemovePlayer(name)
           /\ Len(players) >= 2
           /\ CurrentPlayer # 0
           /\ FindPlayer(players, name) # 0
           /\ name # CurrentName)
              => (/\ current_player_index' < Len(players')
                  /\ players'[current_player_index' + 1].name = CurrentName)]_vars

\* C29: every card list accepted by the sequence check, as a new meld or
\* as the combined list of an accepted sequence extension, has at most 13
\* cards, one for each rank of a suit; a sequence of A through K extended
\* by a joker is rejected.
C29_SequenceFitsSuit ==
    /\ (vin.op = "new_meld" /\ vin.kind = "sequence" /\ vout = "True")
          => Len(vin.cards) <= Len(RANKS)
    /\ (vin.op = "extension" /\ vin.kind = "sequence" /\ vout = "True")
          => Len(vin.cards) + Len(vin.added) <= Len(RANKS)

\* C30: every meld that Validator.validate_new_meld accepts for its kind
\* also passes Meld.is_valid().
C30_ValidatorsAgree ==
    (vin.op = "new_meld" /\ vout = "True")
        => MeldIsValid(Meld(vin.kind, vin.cards))

=============================================================================
